---- MODULE Spec2Model ----
(***************************************************************************)
(* A model of the essay anonymizer's redaction engine (src/main.go):       *)
(* detector set construction, the redaction pass over one document, the    *)
(* mask template, the Luhn validator and the run loop of main.             *)
(*                                                                         *)
(* Text is a sequence of one-character strings.  Regular expressions are   *)
(* syntax trees, matched with the leftmost-first (preference order) rule   *)
(* of Go's regexp package.                                                 *)
(***************************************************************************)
EXTENDS Integers, Sequences, FiniteSets, TLC

(***************************************************************************)
(* Characters and character classes                                        *)
(***************************************************************************)
Digit == {"0", "1", "2", "3", "4", "5", "6", "7", "8", "9"}

Lower == {"a", "b", "c", "d", "e", "f", "g", "h", "i", "j", "k", "l", "m",
          "n", "o", "p", "q", "r", "s", "t", "u", "v", "w", "x", "y", "z"}

Upper == {"A", "B", "C", "D", "E", "F", "G", "H", "I", "J", "K", "L", "M",
          "N", "O", "P", "Q", "R", "S", "T", "U", "V", "W", "X", "Y", "Z"}

Alpha == Lower \cup Upper

\* \w of RE2: [0-9A-Za-z_]; it decides \b.
WordCh == Alpha \cup Digit \cup {"_"}

\* \s of RE2: [\t\n\f\r ]; the documents of the model use blank, tab, newline.
SpaceCh == {" ", "\t", "\n"}

(***************************************************************************)
(* Sequence helpers                                                        *)
(***************************************************************************)
InSeq(e, q) == \E k \in 1..Len(q) : q[k] = e

\* q without the later copies of an element (order of first occurrences kept).
Dedup(q) ==
    IF Len(q) <= 1 \/ Cardinality({q[k] : k \in 1..Len(q)}) = Len(q) THEN q
    ELSE LET first == {k \in 1..Len(q) : \A j \in 1..(k - 1) : q[j] # q[k]}
             nth(n) == CHOOSE k \in first : Cardinality({j \in first : j < k}) = n - 1
         IN  [n \in 1..Cardinality(first) |-> q[nth(n)]]

\* The concatenation of the sequences of a sequence.
RECURSIVE Flatten(_)
Flatten(qq) == IF qq = <<>> THEN <<>> ELSE Head(qq) \o Flatten(Tail(qq))

\* s[a..b-1]: the half-open span [a, b) of s.
Slice(s, a, b) == SubSeq(s, a, b - 1)

\* strings.HasPrefix
HasPrefix(s, p) == Len(p) <= Len(s) /\ SubSeq(s, 1, Len(p)) = p

\* Whether old occurs in s at position i.
OccursAt(s, old, i) == i + Len(old) - 1 <= Len(s) /\ SubSeq(s, i, i + Len(old) - 1) = old

\* strings.Contains
Contains(s, sub) == \E i \in 1..(Len(s) + 1) : OccursAt(s, sub, i)

\* strings.ReplaceAll(s, old, new) for a non-empty old: the non-overlapping
\* occurrences of old, found left to right, each replaced by new.
RECURSIVE ReplaceAllFrom(_, _, _, _)
ReplaceAllFrom(s, old, new, i) ==
    IF i > Len(s) THEN <<>>
    ELSE IF OccursAt(s, old, i) THEN new \o ReplaceAllFrom(s, old, new, i + Len(old))
    ELSE <<s[i]>> \o ReplaceAllFrom(s, old, new, i + 1)

ReplaceAll(s, old, new) == ReplaceAllFrom(s, old, new, 1)

(***************************************************************************)
(* Regular expressions: syntax trees                                       *)
(***************************************************************************)
\* The max of a repetition without an upper limit ({2,}, +, *).
Unbounded == 0 - 1

Cls(S) == [t |-> "cls", set |-> S]
NotCls(S) == [t |-> "ncls", set |-> S]
Cat(ps) == [t |-> "cat", parts |-> ps]
Alt(ps) == [t |-> "alt", parts |-> ps]
Rep(r, lo, hi) == [t |-> "rep", sub |-> r, min |-> lo, max |-> hi, greedy |-> TRUE]
LazyRep(r, lo, hi) == [t |-> "rep", sub |-> r, min |-> lo, max |-> hi, greedy |-> FALSE]
WordBoundary == [t |-> "wb"]
Opt(r) == Rep(r, 0, 1)
Plus(r) == Rep(r, 1, Unbounded)
Ch(c) == Cls({c})
\* A literal text.
Lit(q) == Cat([k \in 1..Len(q) |-> Ch(q[k])])

(***************************************************************************)
(* Regular expressions: matching                                           *)
(***************************************************************************)
IsWordAt(s, i) == i >= 1 /\ i <= Len(s) /\ s[i] \in WordCh

\* \b between s[i-1] and s[i].
AtWordBoundary(s, i) == IsWordAt(s, i - 1) # IsWordAt(s, i)

\* Ends(re, s, i): the positions at which a match of re that starts at i can
\* end, in the preference order of a backtracking matcher, each listed once.
\* The match the regexp package reports at i ends at the first of them.
RECURSIVE Ends(_, _, _), CatEnds(_, _, _, _), AltEnds(_, _, _, _)
RECURSIVE RepEnds(_, _, _, _, _, _), EachEnds(_, _, _, _)

\* Ends(re, s, e) for every e of starts, in order.
EachEnds(re, s, starts, k) ==
    IF k > Len(starts) THEN <<>>
    ELSE Ends(re, s, starts[k]) \o EachEnds(re, s, starts, k + 1)

CatEnds(parts, k, s, starts) ==
    IF k > Len(parts) \/ starts = <<>> THEN starts
    ELSE CatEnds(parts, k + 1, s, Dedup(EachEnds(parts[k], s, starts, 1)))

AltEnds(parts, k, s, i) ==
    IF k > Len(parts) THEN <<>>
    ELSE Ends(parts[k], s, i) \o AltEnds(parts, k + 1, s, i)

\* The ends of n successive matches of sub, begun at any of starts.
RECURSIVE Power(_, _, _, _)
Power(sub, n, s, starts) ==
    IF n = 0 \/ starts = <<>> THEN starts
    ELSE Power(sub, n - 1, s, Dedup(EachEnds(sub, s, starts, 1)))

\* The ends of zero to hi further matches of sub from i: as many as possible
\* first when greedy, as few as possible first when lazy.
RECURSIVE MoreEnds(_, _, _, _, _), EachMore(_, _, _, _, _, _)
EachMore(sub, hi, greedy, s, starts, k) ==
    IF k > Len(starts) THEN <<>>
    ELSE MoreEnds(sub, hi, greedy, s, starts[k])
         \o EachMore(sub, hi, greedy, s, starts, k + 1)

MoreEnds(sub, hi, greedy, s, i) ==
    IF hi = 0 THEN <<i>>
    ELSE LET less == IF hi = Unbounded THEN Unbounded ELSE hi - 1
             one  == SelectSeq(Ends(sub, s, i), LAMBDA e : e > i)
             more == EachMore(sub, less, greedy, s, one, 1)
         IN  IF greedy THEN Dedup(more \o <<i>>) ELSE Dedup(<<i>> \o more)

\* The run of characters of a class from i on: the position after it.
RunEnd(cls, s, i) ==
    LET in(k) == IF cls.t = "cls" THEN s[k] \in cls.set ELSE s[k] \notin cls.set
        stop  == {j \in i..Len(s) : ~in(j)}
    IN  IF i > Len(s) \/ ~in(i) THEN i
        ELSE IF stop = {} THEN Len(s) + 1
        ELSE CHOOSE j \in stop : \A k \in stop : j <= k

\* A repetition of a single character class consumes lo..hi characters of the
\* run at i: the longest first when greedy, the shortest first when lazy.
ClassRepEnds(cls, lo, hi, greedy, s, i) ==
    LET run  == RunEnd(cls, s, i) - i
        most == IF hi = Unbounded \/ hi > run THEN run ELSE hi
    IN  IF most < lo THEN <<>>
        ELSE [n \in 1..(most - lo + 1) |->
                 IF greedy THEN i + most - (n - 1) ELSE i + lo + (n - 1)]

\* sub{lo,hi}: lo matches of sub, then zero to hi - lo further ones.
RepEnds(sub, lo, hi, greedy, s, i) ==
    IF sub.t \in {"cls", "ncls"} THEN ClassRepEnds(sub, lo, hi, greedy, s, i)
    ELSE LET rest == IF hi = Unbounded THEN Unbounded ELSE hi - lo
         IN  Dedup(EachMore(sub, rest, greedy, s, Power(sub, lo, s, <<i>>), 1))

Ends(re, s, i) ==
    CASE re.t = "cls"  -> IF i <= Len(s) /\ s[i] \in re.set THEN <<i + 1>> ELSE <<>>
      [] re.t = "ncls" -> IF i <= Len(s) /\ s[i] \notin re.set THEN <<i + 1>> ELSE <<>>
      [] re.t = "wb"   -> IF AtWordBoundary(s, i) THEN <<i>> ELSE <<>>
      [] re.t = "cat"  -> CatEnds(re.parts, 1, s, <<i>>)
      [] re.t = "alt"  -> Dedup(AltEnds(re.parts, 1, s, i))
      [] re.t = "rep"  -> RepEnds(re.sub, re.min, re.max, re.greedy, s, i)

\* The positions of s at which a match of re starts.
MatchStarts(re, s) == {p \in 1..(Len(s) + 1) : Ends(re, s, p) # <<>>}

\* The successive matches of regexp's allMatches / replaceAll loop, as
\* <<start, end>> (end exclusive): each is the leftmost match at or after
\* searchPos; the search resumes at the end of a match (one further after an
\* empty match), and an empty match right after the previous match is dropped.
RECURSIVE MatchesFrom(_, _, _, _, _)
MatchesFrom(re, s, starts, searchPos, lastMatchEnd) ==
    LET from == {p \in starts : p >= searchPos}
    IN  IF from = {} THEN <<>>
        ELSE LET a      == CHOOSE p \in from : \A q \in from : p <= q
                 b      == Ends(re, s, a)[1]
                 accept == b > a \/ a # lastMatchEnd
                 next   == IF b > searchPos THEN b ELSE searchPos + 1
             IN  (IF accept THEN <<(<<a, b>>)>> ELSE <<>>)
                 \o MatchesFrom(re, s, starts, next, b)

\* (*Regexp).FindAllStringIndex(s, -1), as half-open spans.
FindAllStringIndex(re, s) == MatchesFrom(re, s, MatchStarts(re, s), 1, 0)

(***************************************************************************)
(* The built-in detectors' regular expressions (buildPatterns)             *)
(***************************************************************************)
D(n) == Rep(Cls(Digit), n, n)

\* [\s.-]?
OptSep == Opt(Cls(SpaceCh \cup {".", "-"}))

\* [A-Za-z0-9._%+-]+@[A-Za-z0-9.-]+\.[A-Za-z]{2,}
ReEmail ==
    Cat(<<Plus(Cls(Alpha \cup Digit \cup {".", "_", "%", "+", "-"})),
          Ch("@"),
          Plus(Cls(Alpha \cup Digit \cup {".", "-"})),
          Ch("."),
          Rep(Cls(Alpha), 2, Unbounded)>>)

\* (?i)(?:\+?1[\s.-]?)?(?:\(\s*\d{3}\s*\)|\d{3})[\s.-]?\d{3}[\s.-]?\d{4}
RePhone ==
    Cat(<<Opt(Cat(<<Opt(Ch("+")), Ch("1"), OptSep>>)),
          Alt(<<Cat(<<Ch("("), Rep(Cls(SpaceCh), 0, Unbounded), D(3),
                      Rep(Cls(SpaceCh), 0, Unbounded), Ch(")")>>),
                D(3)>>),
          OptSep, D(3), OptSep, D(4)>>)

\* \b\d{3}-\d{2}-\d{4}\b
ReSSN == Cat(<<WordBoundary, D(3), Ch("-"), D(2), Ch("-"), D(4), WordBoundary>>)

\* \b(?:0?[1-9]|1[0-2])[/-](?:0?[1-9]|[12]\d|3[01])[/-](?:19|20)\d{2}\b
ReDOB ==
    Cat(<<WordBoundary,
          Alt(<<Cat(<<Opt(Ch("0")), Cls(Digit \ {"0"})>>),
                Cat(<<Ch("1"), Cls({"0", "1", "2"})>>)>>),
          Cls({"/", "-"}),
          Alt(<<Cat(<<Opt(Ch("0")), Cls(Digit \ {"0"})>>),
                Cat(<<Cls({"1", "2"}), Cls(Digit)>>),
                Cat(<<Ch("3"), Cls({"0", "1"})>>)>>),
          Cls({"/", "-"}),
          Alt(<<Lit(<<"1", "9">>), Lit(<<"2", "0">>)>>),
          D(2),
          WordBoundary>>)

\* \b\d+\s+[A-Za-z0-9.\-\s]+\s+(?:Street|St|Avenue|Ave|Road|Rd|Boulevard|Blvd|Drive|Dr|Lane|Ln|Way|Court|Ct)\b
ReStreet ==
    Cat(<<WordBoundary,
          Plus(Cls(Digit)),
          Plus(Cls(SpaceCh)),
          Plus(Cls(Alpha \cup Digit \cup {".", "-"} \cup SpaceCh)),
          Plus(Cls(SpaceCh)),
          Alt(<<Lit(<<"S", "t", "r", "e", "e", "t">>),
                Lit(<<"S", "t">>),
                Lit(<<"A", "v", "e", "n", "u", "e">>),
                Lit(<<"A", "v", "e">>),
                Lit(<<"R", "o", "a", "d">>),
                Lit(<<"R", "d">>),
                Lit(<<"B", "o", "u", "l", "e", "v", "a", "r", "d">>),
                Lit(<<"B", "l", "v", "d">>),
                Lit(<<"D", "r", "i", "v", "e">>),
                Lit(<<"D", "r">>),
                Lit(<<"L", "a", "n", "e">>),
                Lit(<<"L", "n">>),
                Lit(<<"W", "a", "y">>),
                Lit(<<"C", "o", "u", "r", "t">>),
                Lit(<<"C", "t">>)>>),
          WordBoundary>>)

\* \bhttps?://[^\s]+
ReURL ==
    Cat(<<WordBoundary, Lit(<<"h", "t", "t", "p">>), Opt(Ch("s")),
          Lit(<<":", "/", "/">>), Plus(NotCls(SpaceCh))>>)

\* \b(?:\d{1,3}\.){3}\d{1,3}\b
ReIP ==
    Cat(<<WordBoundary,
          Rep(Cat(<<Rep(Cls(Digit), 1, 3), Ch(".")>>), 3, 3),
          Rep(Cls(Digit), 1, 3),
          WordBoundary>>)

\* \b(?:\d[ -]*?){13,19}\b
ReCard ==
    Cat(<<WordBoundary,
          Rep(Cat(<<Cls(Digit), LazyRep(Cls({" ", "-"}), 0, Unbounded)>>), 13, 19),
          WordBoundary>>)

(***************************************************************************)
(* Texts of the program                                                    *)
(***************************************************************************)
LEmail ==
    <<"e", "m", "a", "i", "l">>

LPhone ==
    <<"p", "h", "o", "n", "e">>

LSSN ==
    <<"s", "s", "n">>

LDOB ==
    <<"d", "o", "b">>

LStreet ==
    <<"s", "t", "r", "e", "e", "t", "_", "a", "d", "d", "r", "e", "s", "s">>

LURL ==
    <<"u", "r", "l">>

LIP ==
    <<"i", "p", "_", "a", "d", "d", "r", "e", "s", "s">>

LCard ==
    <<"c", "r", "e", "d", "i", "t", "_", "c", "a", "r", "d">>

CustomPrefix ==
    <<"c", "u", "s", "t", "o", "m", ":">>

NamePrefix ==
    <<"n", "a", "m", "e", ":">>

PhLabel ==
    <<"{", "l", "a", "b", "e", "l", "}">>

PhN ==
    <<"{", "n", "}">>

PhHash ==
    <<"{", "h", "a", "s", "h", "}">>

DigitChars == <<"0", "1", "2", "3", "4", "5", "6", "7", "8", "9">>

\* The value of a decimal digit character (ch - '0').
DigitValue(c) == (CHOOSE k \in 1..10 : DigitChars[k] = c) - 1

\* fmt.Sprintf("%d", n) for n >= 0.
RECURSIVE Decimal(_)
Decimal(n) ==
    IF n < 10 THEN <<DigitChars[n + 1]>>
    ELSE Decimal(n \div 10) \o <<DigitChars[(n % 10) + 1]>>

\* strings.TrimSpace
TrimSpace(s) ==
    LET keep == {k \in 1..Len(s) : s[k] \notin SpaceCh}
    IN  IF keep = {} THEN <<>>
        ELSE SubSeq(s, CHOOSE a \in keep : \A k \in keep : a <= k,
                       CHOOSE b \in keep : \A k \in keep : b >= k)

LowerChars == <<"a", "b", "c", "d", "e", "f", "g", "h", "i", "j", "k", "l", "m",
                "n", "o", "p", "q", "r", "s", "t", "u", "v", "w", "x", "y", "z">>

UpperChars == <<"A", "B", "C", "D", "E", "F", "G", "H", "I", "J", "K", "L", "M",
                "N", "O", "P", "Q", "R", "S", "T", "U", "V", "W", "X", "Y", "Z">>

\* The characters that match c under (?i).
FoldCase(c) ==
    IF c \in Alpha
    THEN LET k == CHOOSE j \in 1..26 : LowerChars[j] = c \/ UpperChars[j] = c
         IN  {LowerChars[k], UpperChars[k]}
    ELSE {c}

(***************************************************************************)
(* The regexp library on the custom expressions of the model               *)
(***************************************************************************)
RawSixDigits ==
    <<"\\", "b", "\\", "d", "{", "6", "}", "\\", "b">>

RawBraceN ==
    <<"{", "n", "}">>

RawUnclosed ==
    <<"(">>

\* What regexp.Compile makes of each raw expression: the compiled expression,
\* or an error (ok = FALSE) for one that does not parse.
RegexpLibrary ==
    {[raw |-> RawSixDigits, ok |-> TRUE,
      re |-> Cat(<<WordBoundary, D(6), WordBoundary>>)],
     [raw |-> RawBraceN, ok |-> TRUE, re |-> Lit(<<"{", "n", "}">>)],
     [raw |-> RawUnclosed, ok |-> FALSE, re |-> Cat(<<>>)]}

\* regexp.Compile
Compile(raw) == CHOOSE e \in RegexpLibrary : e.raw = raw

\* regexp.MustCompile(`(?i)\b` + regexp.QuoteMeta(name) + `\b`): QuoteMeta
\* makes every character of name a literal.
CompileName(name) ==
    Cat(<<WordBoundary, Cat([k \in 1..Len(name) |-> Cls(FoldCase(name[k]))]),
          WordBoundary>>)

(***************************************************************************)
(* Detector set construction                                               *)
(***************************************************************************)
BuiltinPatterns ==
    <<[label |-> LEmail,  re |-> ReEmail],
      [label |-> LPhone,  re |-> RePhone],
      [label |-> LSSN,    re |-> ReSSN],
      [label |-> LDOB,    re |-> ReDOB],
      [label |-> LStreet, re |-> ReStreet],
      [label |-> LURL,    re |-> ReURL],
      [label |-> LIP,     re |-> ReIP],
      [label |-> LCard,   re |-> ReCard]>>

NoError == [kind |-> "none"]

\* A loop that leaves out the expressions that do not compile.
RECURSIVE appendCustomValid(_, _, _)
appendCustomValid(custom, k, patterns) ==
    IF k > Len(custom) THEN [patterns |-> patterns, err |-> NoError]
    ELSE LET c == Compile(custom[k])
         IN  appendCustomValid(custom, k + 1,
                 IF c.ok
                 THEN Append(patterns, [label |-> CustomPrefix \o custom[k], re |-> c.re])
                 ELSE patterns)

\* The loop of buildPatterns over the custom expressions: k is the next one,
\* patterns the detectors so far.  A compile error returns nil and the error.
RECURSIVE appendCustom(_, _, _)
appendCustom(custom, k, patterns) ==
    IF k > Len(custom) THEN [patterns |-> patterns, err |-> NoError]
    ELSE LET c == Compile(custom[k])
         IN  IF ~c.ok
             THEN [patterns |-> <<>>,
                   err |-> [kind |-> "invalid custom regex", raw |-> custom[k]]]
             ELSE appendCustom(custom, k + 1,
                      Append(patterns, [label |-> CustomPrefix \o custom[k], re |-> c.re]))

\* buildPatterns with the custom detectors ahead of the built-in ones.
buildPatternsCustomFirst(custom) ==
    LET r == appendCustom(custom, 1, <<>>)
    IN  [patterns |-> IF r.err = NoError THEN r.patterns \o BuiltinPatterns ELSE <<>>,
         err |-> r.err]

buildPatterns(custom) == appendCustom(custom, 1, BuiltinPatterns)

buildNamePatterns(names) ==
    [k \in 1..Len(names) |->
        [label |-> NamePrefix \o names[k], re |-> CompileName(names[k])]]

(***************************************************************************)
(* Mask template and credit-card validator                                 *)
(***************************************************************************)
applyMaskTemplate(template, label, index) ==
    LET out == ReplaceAll(template, PhLabel, label)
    IN  ReplaceAll(out, PhN, Decimal(index))

\* The loop of luhnValid from the last character down to the first: the sum,
\* or -1 once a character is not a digit (return false).
RECURSIVE luhnSum(_, _, _, _)
luhnSum(number, i, sum, double) ==
    IF i < 1 THEN sum
    ELSE IF number[i] \notin Digit THEN 0 - 1
    ELSE LET digit   == DigitValue(number[i])
             twice   == IF digit * 2 > 9 THEN digit * 2 - 9 ELSE digit * 2
         IN  luhnSum(number, i - 1, sum + (IF double THEN twice ELSE digit), ~double)

\* luhnValid with the lower length limit at 12.
luhnValidFrom12(number) ==
    IF Len(number) < 12 \/ Len(number) > 19 THEN FALSE
    ELSE LET sum == luhnSum(number, Len(number), 0, FALSE)
         IN  sum >= 0 /\ sum % 10 = 0

luhnValid(number) ==
    IF Len(number) < 13 \/ Len(number) > 19 THEN FALSE
    ELSE LET sum == luhnSum(number, Len(number), 0, FALSE)
         IN  sum >= 0 /\ sum % 10 = 0

luhnValidToken(raw) ==
    LET digits == ReplaceAll(raw, <<" ">>, <<>>)
    IN  luhnValid(ReplaceAll(digits, <<"-">>, <<>>))

(***************************************************************************)
(* Replacement of the matches of one detector                              *)
(***************************************************************************)
\* The name that follows a "$" of a replacement text (regexp's extract):
\* the longest run of letters, digits and underscores, optionally in braces.
\* num is 0 for the name "0" (the whole match) and -1 for every other name:
\* the detectors of the model have no capture groups, so every other name
\* refers to nothing.
extract(str) ==
    LET brace == str # <<>> /\ str[1] = "{"
        body  == IF brace THEN Tail(str) ELSE str
        stop  == {k \in 1..Len(body) : body[k] \notin WordCh}
        i     == IF stop = {} THEN Len(body)
                 ELSE (CHOOSE k \in stop : \A j \in stop : k <= j) - 1
        name  == SubSeq(body, 1, i)
        close == IF brace THEN 1 ELSE 0
    IN  IF str = <<>> \/ i = 0 \/ (brace /\ (i >= Len(body) \/ body[i + 1] # "}"))
        THEN [ok |-> FALSE, num |-> 0 - 1, rest |-> str]
        ELSE [ok |-> TRUE,
              num |-> IF name = <<"0">> THEN 0 ELSE 0 - 1,
              rest |-> SubSeq(body, i + 1 + close, Len(body))]

\* (*Regexp).expand: the replacement text of ReplaceAllString for one match,
\* "$name" and "${name}" replaced by the submatch, "$$" by "$".
RECURSIVE expand(_, _)
expand(template, raw) ==
    LET at == {k \in 1..Len(template) : template[k] = "$"}
    IN  IF at = {} THEN template
        ELSE LET k      == CHOOSE a \in at : \A b \in at : a <= b
                 before == SubSeq(template, 1, k - 1)
                 after  == SubSeq(template, k + 1, Len(template))
                 x      == extract(after)
             IN  IF after # <<>> /\ after[1] = "$"
                 THEN before \o <<"$">> \o expand(Tail(after), raw)
                 ELSE IF ~x.ok THEN before \o <<"$">> \o expand(after, raw)
                 ELSE before \o (IF x.num = 0 THEN raw ELSE <<>>) \o expand(x.rest, raw)

\* A replacement that loses the text after the last match.
RECURSIVE SpliceNoTail(_, _, _, _)
SpliceNoTail(src, calls, k, pos) ==
    IF k > Len(calls) THEN <<>>
    ELSE Slice(src, pos, calls[k].a) \o calls[k].token
         \o SpliceNoTail(src, calls, k + 1, calls[k].b)

\* The text a replacement pass returns: src with the span [a, b) of every
\* call replaced by the call's token, the rest copied.
RECURSIVE Splice(_, _, _, _)
Splice(src, calls, k, pos) ==
    IF k > Len(calls) THEN Slice(src, pos, Len(src) + 1)
    ELSE Slice(src, pos, calls[k].a) \o calls[k].token
         \o Splice(src, calls, k + 1, calls[k].b)

Zeros(n) == [k \in 1..n |-> 0]

\* For each character of a token, the position in the match of the character
\* it is a copy of, or 0 for a character of the mask.  A match returned as it
\* is copies itself.
Same(raw) == [k \in 1..Len(raw) |-> k]

\* The copies in expand(mask, raw): the expansion of the mask over a match of
\* one marked element shows where the match goes.
expandCopy(mask, raw) ==
    LET shape == expand(mask, <<"match">>)
    IN  Flatten([k \in 1..Len(shape) |->
                    IF shape[k] = "match" THEN Same(raw) ELSE <<0>>])

\* m[key] = n: the count of the latest pass kept.
MapSet(m, key, n) ==
    [k \in DOMAIN m \cup {key} |-> IF k = key THEN n ELSE m[k]]

\* Every call counted, the rejected candidates too.
RedactedAll(calls) == Len(calls)

\* The number of calls that redacted their match.
Redacted(calls) == Cardinality({k \in 1..Len(calls) : calls[k].redacted})

\* m[key] += n on a Go map: a missing key counts from 0.
MapAdd(m, key, n) ==
    [k \in DOMAIN m \cup {key} |->
        (IF k \in DOMAIN m THEN m[k] ELSE 0) + (IF k = key THEN n ELSE 0)]

(***************************************************************************)
(* Character codes, text order and the digest                              *)
(***************************************************************************)
\* The printable ASCII characters from the blank (32) to "_" (95), in order.
PrintableLow ==
    <<" ", "!", "\"", "#", "$", "%", "&", "'", "(", ")", "*", "+", ",", "-",
      ".", "/", "0", "1", "2", "3", "4", "5", "6", "7", "8", "9", ":", ";",
      "<", "=", ">", "?", "@", "A", "B", "C", "D", "E", "F", "G", "H", "I",
      "J", "K", "L", "M", "N", "O", "P", "Q", "R", "S", "T", "U", "V", "W",
      "X", "Y", "Z", "[", "\\", "]", "^", "_">>

\* The printable ASCII characters from "a" (97) to "~" (126), in order.
PrintableHigh ==
    <<"a", "b", "c", "d", "e", "f", "g", "h", "i", "j", "k", "l", "m", "n",
      "o", "p", "q", "r", "s", "t", "u", "v", "w", "x", "y", "z", "{", "|",
      "}", "~">>

\* The byte value of a character.
CharCode(c) ==
    IF c = "\t" THEN 9
    ELSE IF c = "\n" THEN 10
    ELSE IF InSeq(c, PrintableLow)
    THEN 31 + (CHOOSE k \in 1..Len(PrintableLow) : PrintableLow[k] = c)
    ELSE 96 + (CHOOSE k \in 1..Len(PrintableHigh) : PrintableHigh[k] = c)

\* a < b on Go strings: byte-wise lexicographic order.
LessText(a, b) ==
    \E k \in 1..(Len(b)) :
        /\ \A j \in 1..(k - 1) : j <= Len(a) /\ a[j] = b[j]
        /\ (k > Len(a) \/ (k <= Len(a) /\ CharCode(a[k]) < CharCode(b[k])))
        /\ k - 1 <= Len(a)

HexChars == <<"0", "1", "2", "3", "4", "5", "6", "7", "8", "9",
              "a", "b", "c", "d", "e", "f">>

\* Four lowercase hex digits of v, 0 <= v < 16^4.
Hex4(v) ==
    <<HexChars[((v \div 4096) % 16) + 1], HexChars[((v \div 256) % 16) + 1],
      HexChars[((v \div 16) % 16) + 1], HexChars[(v % 16) + 1]>>

\* A 16-bit polynomial checksum of the text with multiplier m.
RECURSIVE Checksum(_, _, _, _)
Checksum(text, m, k, acc) ==
    IF k > Len(text) THEN acc
    ELSE Checksum(text, m, k + 1, (acc * m + CharCode(text[k])) % 65536)

\* The lowercase hex encoding of the digest of a text.  The program's digest
\* is a cryptographic hash of 64 hex characters; the model stands for it with
\* a deterministic 16-character one: what the engine relies on is that the
\* digest is a function of the text alone.
HexDigest(text) ==
    Hex4(Checksum(text, 31, 1, 7)) \o Hex4(Checksum(text, 37, 1, 11))
    \o Hex4(Checksum(text, 41, 1, 13)) \o Hex4(Checksum(text, 43, 1, 17))

(***************************************************************************)
(* Mask configuration, hash fragment and pattern filter                    *)
(***************************************************************************)
DefaultHashTemplate ==
    <<"[", "R", "E", "D", "A", "C", "T", "E", "D", ":", "{", "l", "a", "b",
      "e", "l", "}", ":", "{", "h", "a", "s", "h", "}", "]">>

\* buildMaskConfig without the {hash} requirement and without the default.
buildMaskConfigUnchecked(mask, template, hashEnabled, salt, hashLength) ==
    [ok |-> TRUE, err |-> NoError, mask |-> mask, template |-> TrimSpace(template),
     hash |-> hashEnabled, salt |-> salt, hashLength |-> hashLength]

\* buildMaskConfig(mask, template, hashEnabled, salt, hashLength): hashing
\* without a template takes the default template; hashing with a template that
\* lacks {hash} is a configuration error.
buildMaskConfig(mask, template, hashEnabled, salt, hashLength) ==
    LET given == TrimSpace(template)
        tpl   == IF hashEnabled /\ given = <<>> THEN DefaultHashTemplate ELSE given
    IN  IF hashEnabled /\ ~Contains(tpl, PhHash)
        THEN [ok |-> FALSE, err |-> [kind |-> "hash requires {hash} in template"]]
        ELSE [ok |-> TRUE, err |-> NoError, mask |-> mask, template |-> tpl,
              hash |-> hashEnabled, salt |-> salt, hashLength |-> hashLength]

\* The first hashLength hex characters of digest(salt || raw).
hashFragment(salt, raw, hashLength) == SubSeq(HexDigest(salt \o raw), 1, hashLength)

\* applyMaskTemplate with its {hash} placeholder.
applyMaskTemplateHash(template, label, index, hash) ==
    ReplaceAll(applyMaskTemplate(template, label, index), PhHash, hash)

\* A disable request taken as an exact label only.
disablesExact(request, label) == label = request

\* Whether a disable request names the label: exactly, or by the prefix
\* before a final "*".
disables(request, label) ==
    IF request # <<>> /\ request[Len(request)] = "*"
    THEN HasPrefix(label, SubSeq(request, 1, Len(request) - 1))
    ELSE label = request

filterPatterns(patterns, disabled) ==
    SelectSeq(patterns,
              LAMBDA pat : ~\E k \in 1..Len(disabled) : disables(disabled[k], pat.label))

(***************************************************************************)
(* The redaction pass: one detector over the content                       *)
(***************************************************************************)
\* A token whose hash fragment also depends on the index of the redaction.
templateTokenIndexed(c, label, idx, raw) ==
    IF c.hash
    THEN applyMaskTemplateHash(c.template, label, idx,
                               hashFragment(c.salt, raw \o Decimal(idx), c.hashLength))
    ELSE applyMaskTemplate(c.template, label, idx)

\* The token of the idx-th redaction of a label under a template.
templateToken(cfg, label, idx, raw) ==
    IF cfg.hash
    THEN applyMaskTemplateHash(cfg.template, label, idx,
                               hashFragment(cfg.salt, raw, cfg.hashLength))
    ELSE applyMaskTemplate(cfg.template, label, idx)

\* A template branch whose counter also counts the rejected candidates.
RECURSIVE templateCallsAllCounted(_, _, _, _, _, _)
templateCallsAllCounted(pat, c, text, matches, k, counter) ==
    IF k > Len(matches) THEN <<>>
    ELSE LET a   == matches[k][1]
             b   == matches[k][2]
             raw == Slice(text, a, b)
         IN  IF pat.label = LCard /\ ~luhnValidToken(raw)
             THEN <<[a |-> a, b |-> b, raw |-> raw, redacted |-> FALSE,
                     token |-> raw, copy |-> Same(raw), n |-> 0]>>
                  \o templateCallsAllCounted(pat, c, text, matches, k + 1, counter + 1)
             ELSE LET token == templateToken(c, pat.label, counter + 1, raw)
                  IN  <<[a |-> a, b |-> b, raw |-> raw, redacted |-> TRUE,
                         token |-> token, copy |-> Zeros(Len(token)),
                         n |-> counter + 1]>>
                  \o templateCallsAllCounted(pat, c, text, matches, k + 1, counter + 1)

\* The calls of the replacement function of the template branch, one per
\* match from left to right; counter is the closure's counter before match k.
RECURSIVE templateCalls(_, _, _, _, _, _)
templateCalls(pat, cfg, content, matches, k, counter) ==
    IF k > Len(matches) THEN <<>>
    ELSE LET a   == matches[k][1]
             b   == matches[k][2]
             raw == Slice(content, a, b)
         IN  IF pat.label = LCard /\ ~luhnValidToken(raw)
             THEN <<[a |-> a, b |-> b, raw |-> raw, redacted |-> FALSE,
                     token |-> raw, copy |-> Same(raw), n |-> 0]>>
                  \o templateCalls(pat, cfg, content, matches, k + 1, counter)
             ELSE LET token == templateToken(cfg, pat.label, counter + 1, raw)
                  IN  <<[a |-> a, b |-> b, raw |-> raw, redacted |-> TRUE,
                         token |-> token, copy |-> Zeros(Len(token)),
                         n |-> counter + 1]>>
                  \o templateCalls(pat, cfg, content, matches, k + 1, counter + 1)

\* The credit_card branch without the Luhn check: every candidate replaced.
cardCallsUnchecked(mask, text, matches) ==
    [k \in 1..Len(matches) |->
        LET raw == Slice(text, matches[k][1], matches[k][2])
        IN  [a |-> matches[k][1], b |-> matches[k][2], raw |-> raw, redacted |-> TRUE,
             token |-> mask, copy |-> Zeros(Len(mask)), n |-> 0]]

\* The calls of the replacement function of the credit_card branch.
cardCalls(mask, content, matches) ==
    [k \in 1..Len(matches) |->
        LET raw == Slice(content, matches[k][1], matches[k][2])
            ok  == luhnValidToken(raw)
        IN  [a |-> matches[k][1], b |-> matches[k][2], raw |-> raw, redacted |-> ok,
             token |-> IF ok THEN mask ELSE raw,
             copy |-> IF ok THEN Zeros(Len(mask)) ELSE Same(raw), n |-> 0]]

\* The replacements of ReplaceAllString(content, mask).
literalCalls(mask, content, matches) ==
    [k \in 1..Len(matches) |->
        LET raw == Slice(content, matches[k][1], matches[k][2])
        IN  [a |-> matches[k][1], b |-> matches[k][2], raw |-> raw, redacted |-> TRUE,
             token |-> expand(mask, raw), copy |-> expandCopy(mask, raw), n |-> 0]]

\* The calls of the replacement function of a pattern, by redactFile's branch.
patternCalls(pat, cfg, content, matches) ==
    IF TrimSpace(cfg.template) # <<>>
    THEN templateCalls(pat, cfg, content, matches, 1, 0)
    ELSE IF pat.label = LCard
    THEN cardCalls(cfg.mask, content, matches)
    ELSE literalCalls(cfg.mask, content, matches)

\* The content and the counts after the calls of a pattern.  The template and
\* the credit_card branch count the redacted calls, the last branch counts
\* len(matches), one call each.
passResult(pat, cfg, content, redactions, calls) ==
    LET count == IF TrimSpace(cfg.template) # <<>> \/ pat.label = LCard
                 THEN Redacted(calls)
                 ELSE Len(calls)
    IN  [calls      |-> calls,
         content    |-> Splice(content, calls, 1, 1),
         redactions |-> IF count = 0 THEN redactions
                        ELSE MapAdd(redactions, pat.label, count)]

\* One iteration of redactFile's loop over the patterns: the matches of the
\* pattern in the content, the calls made for them, the content and the
\* counts after them.
applyPattern(pat, cfg, content, redactions) ==
    CHOOSE r \in {passResult(pat, cfg, content, redactions, calls) :
                     calls \in {patternCalls(pat, cfg, content, matches) :
                                   matches \in {FindAllStringIndex(pat.re, content)}}} :
        TRUE

\* Where each character of the content after a pass comes from: its position
\* in the document as read, or 0 for a character of a mask or a template.
passOrigin(origin, calls) ==
    Splice(origin,
           [k \in 1..Len(calls) |->
               [a |-> calls[k].a, b |-> calls[k].b,
                token |-> [i \in 1..Len(calls[k].copy) |->
                              IF calls[k].copy[i] = 0 THEN 0
                              ELSE origin[calls[k].a + calls[k].copy[i] - 1]]]],
           1, 1)

\* The sum of the values of a map.
RECURSIVE SumMap(_)
SumMap(m) ==
    IF DOMAIN m = {} THEN 0
    ELSE LET k == CHOOSE x \in DOMAIN m : TRUE
         IN  m[k] + SumMap([x \in DOMAIN m \ {k} |-> m[x]])

EmptyMap == [x \in {} |-> 0]

\* The loop of redactFile over the detectors, from the k-th on: the content
\* and the counts after the last pass.
RECURSIVE redactFrom(_, _, _, _, _)
redactFrom(pats, config, k, text, counts) ==
    IF k > Len(pats) THEN [content |-> text, redactions |-> counts]
    ELSE CHOOSE out \in {redactFrom(pats, config, k + 1, r.content, r.redactions) :
                             r \in {applyPattern(pats[k], config, text, counts)}} : TRUE

redactContent(text, pats, config) == redactFrom(pats, config, 1, text, EmptyMap)

(***************************************************************************)
(* The inputs of a run                                                     *)
(***************************************************************************)
MaskDefault ==
    <<"[", "R", "E", "D", "A", "C", "T", "E", "D", "]">>

MaskDollar ==
    <<"[", "$", "0", "]">>

TplLabelN ==
    <<"[", "R", "E", "D", "A", "C", "T", "E", "D", ":", "{", "l", "a", "b",
      "e", "l", "}", ":", "{", "n", "}", "]">>

TplLabelHash ==
    <<"[", "R", "E", "D", "A", "C", "T", "E", "D", ":", "{", "l", "a", "b",
      "e", "l", "}", ":", "{", "h", "a", "s", "h", "}", "]">>

SaltText ==
    <<"s", "a", "l", "t">>

NameJordan ==
    <<"J", "o", "r", "d", "a", "n">>

NameAnn ==
    <<"A", "n", "n">>

DisableNames ==
    <<"n", "a", "m", "e", ":", "*">>

DisableZip ==
    <<"z", "i", "p">>

PathA ==
    <<"a", ".", "t", "x", "t">>

PathB ==
    <<"b", ".", "t", "x", "t">>

PathC ==
    <<"c", ".", "t", "x", "t">>

PathD ==
    <<"d", ".", "t", "x", "t">>

PathUpper ==
    <<"Z", ".", "t", "x", "t">>

PathSub ==
    <<"a", "/", "e", ".", "t", "x", "t">>

DocEmails ==
    <<"E", "m", "a", "i", "l", " ", "m", "e", " ", "a", "t", " ", "t", "e",
      "s", "t", "@", "e", "x", "a", "m", "p", "l", "e", ".", "c", "o", "m",
      " ", "o", "r", " ", "t", "e", "s", "t", "@", "e", "x", "a", "m", "p",
      "l", "e", ".", "c", "o", "m">>

DocCards ==
    <<"v", "a", "l", "i", "d", " ", "4", "1", "1", "1", " ", "1", "1", "1",
      "1", " ", "1", "1", "1", "1", " ", "1", "1", "1", "1", " ", "i", "n",
      "v", "a", "l", "i", "d", " ", "4", "1", "1", "1", " ", "1", "1", "1",
      "1", " ", "1", "1", "1", "1", " ", "1", "1", "1", "2">>

DocStreet ==
    <<"1", "2", "3", " ", "M", "a", "i", "n", " ", "S", "t", ",", " ", "1",
      "9", "2", ".", "1", "6", "8", ".", "1", ".", "1", " ", "o", "r", " ",
      "9", " ", "1", "0", ".", "0", ".", "0", ".", "1", " ", "S", "t">>

DocClean ==
    <<"N", "o", "t", "h", "i", "n", "g", " ", "s", "e", "n", "s", "i", "t",
      "i", "v", "e", " ", "h", "e", "r", "e", ".">>

DocMixed ==
    <<"J", "o", "r", "d", "a", "n", " ", "5", "5", "5", "-", "1", "2", "3",
      "-", "4", "5", "6", "7", " ", "i", "d", " ", "1", "2", "3", "4", "5",
      "6", " ", "{", "n", "}">>

DocNote ==
    <<"t", "o", " ", "a", "@", "b", ".", "c", "o", " ", "4", "2", "2", "2",
      " ", "2", "2", "2", "2", " ", "2", "2", "2", "2", " ", "3", " ", "o",
      "r", " ", "4", "2", "2", "2", " ", "2", "2", "2", "2", " ", "2", "2",
      "2", "2", " ", "2">>

OutDir ==
    <<"r", "e", "d", "a", "c", "t", "e", "d", "/">>

\* A directory given with -output.
OutGiven ==
    <<"o", "u", "t", "/">>

MaskPool == {MaskDefault, MaskDollar}

TemplatePool == {<<>>, TplLabelN, TplLabelHash}

\* -hash with -hash-salt and -hash-length, or no hashing.
HashPool ==
    {[hash |-> FALSE, salt |-> <<>>, length |-> 8],
     [hash |-> TRUE, salt |-> <<>>, length |-> 8],
     [hash |-> TRUE, salt |-> SaltText, length |-> 8],
     [hash |-> TRUE, salt |-> SaltText, length |-> 4]}

CustomPool == {RawSixDigits, RawBraceN, RawUnclosed}

NamePool == {NameJordan, NameAnn}

DisablePool == {LEmail, DisableNames, DisableZip}

FilePool ==
    {[path |-> PathA, data |-> DocEmails],
     [path |-> PathB, data |-> DocCards],
     [path |-> PathC, data |-> DocStreet],
     [path |-> PathD, data |-> DocClean],
     [path |-> PathSub, data |-> DocMixed],
     [path |-> PathUpper, data |-> DocNote]}

\* The options of one run beyond the defaults: every custom regex, name,
\* disable request, non-default flag and file after the first counts one.
MaxOptions == 2

SeqsUpTo(S, n) == UNION {[1..k -> S] : k \in 0..n}

\* The sequences of 1..n distinct files.
FileLists(n) ==
    {f \in UNION {[1..k -> FilePool] : k \in 1..n} :
        \A i, j \in 1..Len(f) : i # j => f[i] # f[j]}

Flag(left) == IF left >= 1 THEN BOOLEAN ELSE {FALSE}

OneOf(S, default, left) == IF left >= 1 THEN S ELSE {default}

Cost(b) == IF b THEN 1 ELSE 0

(***************************************************************************)
(* The run: main                                                           *)
(***************************************************************************)
VARIABLES
    args,        \* the command line: flags and the files found
    pc,          \* where main is
    outDir,      \* the output directory, <<>> when none
    dirs,        \* the directories created
    cfg,         \* the mask configuration
    patterns,    \* the detector set
    err,         \* the error main exited with
    cur,         \* the index of the file being redacted
    content,     \* redactFile's content
    origin,      \* where each character of content comes from
    redactions,  \* redactFile's counts
    pi,          \* the index of the next pattern of redactFile's loop
    log,         \* the passes made over the current file
    disk,        \* the redacted files written: target -> content
    outs,        \* what redactFile returned for each file, in processing order
    rep,         \* the report
    reportWritten,
    call         \* a call of one function by itself: its input and its result

vars == <<args, pc, outDir, dirs, cfg, patterns, err, cur, content, origin,
          redactions, pi, log, disk, outs, rep, reportWritten, call>>

NoCall == [fn |-> "none"]

NoConfig == [ok |-> FALSE, err |-> NoError]

EmptyReport == [Files |-> 0, Total |-> 0, ByPattern |-> EmptyMap, Details |-> <<>>]

\* The flags of a run with only the detectors, the mask and the template set.
Flags(custom, names, mask, template, files) ==
    [mask |-> mask, maskTemplate |-> template, hash |-> FALSE, hashSalt |-> <<>>,
     hashLength |-> 8, custom |-> custom, names |-> names, disable |-> <<>>,
     dryRun |-> FALSE, skipClean |-> FALSE, output |-> <<>>, files |-> files]

\* Runs in which an expression or a name is given twice, so that two
\* detectors bear one label, with a mask or a template that puts the matched
\* text back into the content.
SharedLabelRuns ==
    {Flags(<<RawSixDigits, RawSixDigits>>, <<>>, MaskDollar, <<>>,
           <<[path |-> PathSub, data |-> DocMixed]>>),
     Flags(<<>>, <<NameJordan, NameJordan>>, MaskDefault, TplLabelN,
           <<[path |-> PathSub, data |-> DocMixed]>>)}

Init ==
    /\ \/ args \in SharedLabelRuns
       \/ \E custom \in SeqsUpTo(CustomPool, MaxOptions) :
          \E names \in SeqsUpTo(NamePool, MaxOptions - Len(custom)) :
          \E disable \in SeqsUpTo(DisablePool, MaxOptions - Len(custom) - Len(names)) :
          LET l3 == MaxOptions - Len(custom) - Len(names) - Len(disable)
          IN  \E mask \in OneOf(MaskPool, MaskDefault, l3) :
              LET l4 == l3 - Cost(mask # MaskDefault)
              IN  \E template \in OneOf(TemplatePool, <<>>, l4) :
                  LET l5 == l4 - Cost(template # <<>>)
                  IN  \E h \in OneOf(HashPool, [hash |-> FALSE, salt |-> <<>>, length |-> 8], l5) :
                      LET l6 == l5 - Cost(h.hash)
                      IN  \E dryRun \in Flag(l6) :
                          LET l7 == l6 - Cost(dryRun)
                          IN  \E skipClean \in Flag(l7) :
                              LET l8 == l7 - Cost(skipClean)
                              IN  \E output \in OneOf({<<>>, OutGiven}, <<>>, l8) :
                                  \E files \in FileLists(1 + l8 - Cost(output # <<>>)) :
                                      args = [mask |-> mask, maskTemplate |-> template,
                                              hash |-> h.hash, hashSalt |-> h.salt,
                                              hashLength |-> h.length, custom |-> custom,
                                              names |-> names, disable |-> disable,
                                              dryRun |-> dryRun, skipClean |-> skipClean,
                                              output |-> output, files |-> files]
    /\ pc = "start"
    /\ outDir = <<>>
    /\ dirs = {}
    /\ cfg = NoConfig
    /\ patterns = <<>>
    /\ err = NoError
    /\ cur = 0
    /\ content = <<>>
    /\ origin = <<>>
    /\ redactions = EmptyMap
    /\ pi = 0
    /\ log = <<>>
    /\ disk = EmptyMap
    /\ outs = <<>>
    /\ rep = EmptyReport
    /\ reportWritten = FALSE
    /\ call = NoCall

\* main resolves the output directory and, unless -dry-run, creates it: the
\* directory given with -output, else the default one, or none under -dry-run.
PrepareOutput ==
    /\ UNCHANGED call
    /\ pc = "start"
    /\ outDir' = IF ~args.dryRun /\ args.output = <<>> THEN OutDir ELSE args.output
    /\ dirs' = IF args.dryRun THEN dirs ELSE dirs \cup {outDir'}
    /\ pc' = "config"
    /\ UNCHANGED <<args, cfg, patterns, err, cur, content, origin, redactions, pi,
                   log, disk, outs, rep, reportWritten>>

\* main builds the mask configuration from the flags, or exits.
BuildMaskConfig ==
    /\ UNCHANGED call
    /\ pc = "config"
    /\ LET c == buildMaskConfig(args.mask, args.maskTemplate, args.hash,
                                args.hashSalt, args.hashLength)
       IN  /\ cfg' = IF c.ok THEN c ELSE cfg
           /\ err' = c.err
           /\ pc' = IF c.ok THEN "patterns" ELSE "exit"
    /\ UNCHANGED <<args, outDir, dirs, patterns, cur, content, origin, redactions,
                   pi, log, disk, outs, rep, reportWritten>>

\* A main that goes on with the built-in detectors when buildPatterns fails.
BuildPatternsAnyway ==
    /\ UNCHANGED call
    /\ pc = "patterns"
    /\ LET built == buildPatterns(args.custom)
       IN  /\ patterns' = (IF built.err # NoError THEN BuiltinPatterns
                           ELSE built.patterns) \o buildNamePatterns(args.names)
           /\ err' = built.err
           /\ pc' = "filter"
    /\ UNCHANGED <<args, outDir, dirs, cfg, cur, content, origin, redactions, pi,
                   log, disk, outs, rep, reportWritten>>

\* main builds the detector set: buildPatterns, then the names' detectors
\* appended; an invalid custom regex exits.
BuildPatterns ==
    /\ UNCHANGED call
    /\ pc = "patterns"
    /\ LET built == buildPatterns(args.custom)
       IN  IF built.err # NoError
           THEN /\ err' = built.err
                /\ pc' = "exit"
                /\ UNCHANGED patterns
           ELSE /\ patterns' = built.patterns \o buildNamePatterns(args.names)
                /\ pc' = "filter"
                /\ UNCHANGED err
    /\ UNCHANGED <<args, outDir, dirs, cfg, cur, content, origin, redactions, pi,
                   log, disk, outs, rep, reportWritten>>

\* main drops the disabled detectors; with none left it exits.
FilterPatterns ==
    /\ UNCHANGED call
    /\ pc = "filter"
    /\ LET kept == filterPatterns(patterns, args.disable)
       IN  /\ patterns' = kept
           /\ err' = IF Len(kept) = 0 THEN [kind |-> "no patterns configured"] ELSE err
           /\ pc' = IF Len(kept) = 0 THEN "exit" ELSE "files"
    /\ UNCHANGED <<args, outDir, dirs, cfg, cur, content, origin, redactions, pi,
                   log, disk, outs, rep, reportWritten>>

\* redactFile reads the next file.
OpenFile ==
    /\ UNCHANGED call
    /\ pc = "files"
    /\ cur < Len(args.files)
    /\ cur' = cur + 1
    /\ content' = args.files[cur + 1].data
    /\ origin' = [k \in 1..Len(args.files[cur + 1].data) |-> k]
    /\ redactions' = EmptyMap
    /\ pi' = 1
    /\ log' = <<>>
    /\ pc' = "pass"
    /\ UNCHANGED <<args, outDir, dirs, cfg, patterns, err, disk, outs, rep,
                   reportWritten>>

\* One iteration of redactFile's loop over the patterns.
ApplyPattern ==
    /\ UNCHANGED call
    /\ pc = "pass"
    /\ pi <= Len(patterns)
    /\ \E r \in {applyPattern(patterns[pi], cfg, content, redactions)} :
           /\ content' = r.content
           /\ origin' = passOrigin(origin, r.calls)
           /\ redactions' = r.redactions
           /\ log' = Append(log, [label |-> patterns[pi].label, before |-> content,
                                  from |-> origin, calls |-> r.calls])
    /\ pi' = pi + 1
    /\ UNCHANGED <<args, pc, outDir, dirs, cfg, patterns, err, cur, disk, outs, rep,
                   reportWritten>>

\* filepath.Dir of a path that ends in a file name.
DirOf(path) ==
    LET slashes == {k \in 1..Len(path) : path[k] = "/"}
    IN  IF slashes = {} THEN <<".">>
        ELSE SubSeq(path, 1, (CHOOSE k \in slashes : \A j \in slashes : k >= j))

\* Skipping whatever the total.
skipFileAnyTotal(skipClean, total) == skipClean

\* A file with no redaction is skipped under -skip-clean.
skipFile(skipClean, total) == skipClean /\ total = 0

\* Writing the target under -dry-run too.
writesTargetAlways(dryRun) == TRUE

\* Never writing the target.
writesTargetNever(dryRun) == FALSE

\* redactFile creates the target's directory and writes the target unless
\* -dry-run.
writesTarget(dryRun) == ~dryRun

\* Whether redactFile writes the target: a skipped file is not written.
writesFile(dryRun, skipped) == writesTarget(dryRun) /\ ~skipped

\* Counting the labels of the map instead of adding its counts.
totalOfLabels(counts) == Cardinality(DOMAIN counts)

\* redactFile's total: the counts of the map, added up.
totalOf(counts) == SumMap(counts)

\* An accumulation that keeps a label's latest count instead of adding it.
foldEntryLatest(r, entry) ==
    [Files     |-> r.Files + 1,
     Total     |-> r.Total + entry.Total,
     ByPattern |-> [l \in DOMAIN r.ByPattern \cup DOMAIN entry.Redactions |->
                       IF l \in DOMAIN entry.Redactions
                       THEN entry.Redactions[l] ELSE r.ByPattern[l]],
     Details   |-> Append(r.Details, entry)]

\* main's accumulation of one file's report.
foldEntry(r, entry) ==
    [Files     |-> r.Files + 1,
     Total     |-> r.Total + entry.Total,
     ByPattern |-> [l \in DOMAIN r.ByPattern \cup DOMAIN entry.Redactions |->
                       (IF l \in DOMAIN r.ByPattern THEN r.ByPattern[l] ELSE 0)
                       + (IF l \in DOMAIN entry.Redactions
                          THEN entry.Redactions[l] ELSE 0)],
     Details   |-> Append(r.Details, entry)]

\* The end of redactFile (the target written unless dry-run or skipped, the
\* total summed, the report returned) and main's accumulation of it.
FinishFile ==
    /\ UNCHANGED call
    /\ pc = "pass"
    /\ pi > Len(patterns)
    /\ LET file    == args.files[cur]
           target  == IF outDir # <<>> THEN outDir \o file.path ELSE <<>>
           total   == totalOf(redactions)
           skipped == skipFile(args.skipClean, total)
           wrote   == writesFile(args.dryRun, skipped)
           entry   == [Source |-> file.path, Target |-> target,
                       Redactions |-> redactions, Total |-> total,
                       Skipped |-> skipped]
       IN  /\ disk' = IF wrote
                      THEN [t \in DOMAIN disk \cup {target} |->
                               IF t = target THEN content ELSE disk[t]]
                      ELSE disk
           /\ dirs' = IF wrote THEN dirs \cup {DirOf(target)} ELSE dirs
           /\ outs' = Append(outs, [entry |-> entry, redacted |-> content,
                                    original |-> file.data, log |-> log,
                                    wrote |-> wrote])
           /\ rep' = foldEntry(rep, entry)
    /\ pc' = "files"
    /\ UNCHANGED <<args, outDir, cfg, patterns, err, cur, content, origin,
                   redactions, pi, log, reportWritten>>

\* The details left in the order the files were processed in.
sortDetailsAsProcessed(details) == details

\* sort.Slice(rep.Details, by Source): insertion of each entry in order.
RECURSIVE sortDetails(_)
sortDetails(details) ==
    IF details = <<>> THEN <<>>
    ELSE LET rest  == sortDetails(Tail(details))
             first == Head(details)
             less  == SelectSeq(rest, LAMBDA e : LessText(e.Source, first.Source))
             more  == SelectSeq(rest, LAMBDA e : ~LessText(e.Source, first.Source))
         IN  less \o <<first>> \o more

\* After the last file main sorts the details of the report.
Finalize ==
    /\ UNCHANGED call
    /\ pc = "files"
    /\ cur = Len(args.files)
    /\ rep' = [rep EXCEPT !.Details = sortDetails(rep.Details)]
    /\ pc' = "sorted"
    /\ UNCHANGED <<args, outDir, dirs, cfg, patterns, err, cur, content, origin,
                   redactions, pi, log, disk, outs, reportWritten>>

\* main then writes the report, under -dry-run too, and ends.
WriteReport ==
    /\ UNCHANGED call
    /\ pc = "sorted"
    /\ reportWritten' = TRUE
    /\ pc' = "done"
    /\ UNCHANGED <<args, outDir, dirs, cfg, patterns, err, cur, content, origin,
                   redactions, pi, log, disk, outs, rep>>

Next ==
    \/ PrepareOutput
    \/ BuildMaskConfig
    \/ BuildPatterns
    \/ FilterPatterns
    \/ OpenFile
    \/ ApplyPattern
    \/ FinishFile
    \/ Finalize
    \/ WriteReport

Spec == Init /\ [][Next]_vars

(***************************************************************************)
(* A function called by itself                                             *)
(***************************************************************************)
run == <<args, pc, outDir, dirs, cfg, patterns, err, cur, content, origin,
         redactions, pi, log, disk, outs, rep, reportWritten>>

\* No run of main: only the function under call.
Idle ==
    /\ args = [files |-> <<>>]
    /\ pc = "call"
    /\ outDir = <<>>
    /\ dirs = {}
    /\ cfg = NoConfig
    /\ patterns = <<>>
    /\ err = NoError
    /\ cur = 0
    /\ content = <<>>
    /\ origin = <<>>
    /\ redactions = EmptyMap
    /\ pi = 0
    /\ log = <<>>
    /\ disk = EmptyMap
    /\ outs = <<>>
    /\ rep = EmptyReport
    /\ reportWritten = FALSE

(***************************************************************************)
(* luhnValidToken over tokens                                              *)
(***************************************************************************)
\* The tokens of TestLuhnValidToken, and valid numbers of 13 and 19 digits.
Card13 ==
    <<"4", "2", "2", "2", "2", "2", "2", "2", "2", "2", "2", "2", "2">>

Card16Spaced ==
    <<"4", "1", "1", "1", " ", "1", "1", "1", "1", " ", "1", "1", "1", "1",
      " ", "1", "1", "1", "1">>

Card16Hyphened ==
    <<"4", "0", "1", "2", "-", "8", "8", "8", "8", "-", "8", "8", "8", "8",
      "-", "1", "8", "8", "1">>

Card16Bad ==
    <<"4", "1", "1", "1", " ", "1", "1", "1", "1", " ", "1", "1", "1", "1",
      " ", "1", "1", "1", "2">>

Card19 ==
    <<"6", "2", "0", "0", "0", "0", "0", "0", "0", "0", "0", "0", "0", "0",
      "0", "0", "0", "0", "0">>

LuhnTokens == {Card13, Card16Spaced, Card16Hyphened, Card16Bad, Card19}

\* What a token is edited with: the digits, the separators, another character.
TokenChars == Digit \cup {" ", "-", "x"}

\* The edits made to a token of LuhnTokens.
MaxEdits == 2

luhnCall(raw, edits) ==
    [fn |-> "luhnValidToken", input |-> raw, output |-> luhnValidToken(raw),
     edits |-> edits]

InitLuhn ==
    /\ Idle
    /\ \E raw \in LuhnTokens : call = luhnCall(raw, 0)

ReplaceChar ==
    /\ call.edits < MaxEdits
    /\ \E p \in 1..Len(call.input), c \in TokenChars :
          call' = luhnCall([call.input EXCEPT ![p] = c], call.edits + 1)
    /\ UNCHANGED run

InsertSeparator ==
    /\ call.edits < MaxEdits
    /\ \E p \in 0..Len(call.input), c \in {" ", "-"} :
          call' = luhnCall(SubSeq(call.input, 1, p) \o <<c>>
                           \o SubSeq(call.input, p + 1, Len(call.input)),
                           call.edits + 1)
    /\ UNCHANGED run

DropChar ==
    /\ call.edits < MaxEdits
    /\ call.input # <<>>
    /\ call' = luhnCall(SubSeq(call.input, 1, Len(call.input) - 1), call.edits + 1)
    /\ UNCHANGED run

AppendDigit ==
    /\ call.edits < MaxEdits
    /\ \E c \in Digit : call' = luhnCall(Append(call.input, c), call.edits + 1)
    /\ UNCHANGED run

NextLuhn ==
    \/ ReplaceChar
    \/ InsertSeparator
    \/ DropChar
    \/ AppendDigit

SpecLuhn == InitLuhn /\ [][NextLuhn]_vars

(***************************************************************************)
(* Properties                                                              *)
(***************************************************************************)
Labels(ps) == [k \in 1..Len(ps) |-> ps[k].label]

\* The positions of the content a pass's calls cover, all or the replaced.
Covered(e, replacedOnly) ==
    UNION {e.calls[k].a .. (e.calls[k].b - 1) :
              k \in {i \in 1..Len(e.calls) : ~replacedOnly \/ e.calls[i].redacted}}

\* The characters of the document as read that a pass matched, or replaced.
Sources(e, replacedOnly) == {e.from[p] : p \in Covered(e, replacedOnly)} \ {0}

\* C1: detectors run in set order, each on the content the earlier ones
\* rewrote, and no character of a span that an earlier detector matched and
\* replaced is part of a match of a later detector.
NeverSeenAgain ==
    \A j, k \in 1..Len(log) :
        j < k => Sources(log[j], TRUE) \cap Sources(log[k], FALSE) = {}

\* The part of C1 that does not depend on the mask: the passes follow the
\* detector set, each on the content its predecessor returned.
PassesInSetOrder ==
    pc = "pass" =>
        /\ pi = Len(log) + 1
        /\ \A k \in 1..Len(log) :
              /\ log[k].label = patterns[k].label
              /\ log[k].before = IF k = 1 THEN args.files[cur].data
                                 ELSE Splice(log[k - 1].before, log[k - 1].calls, 1, 1)
        /\ content = IF log = <<>> THEN args.files[cur].data
                     ELSE Splice(log[Len(log)].before, log[Len(log)].calls, 1, 1)

\* C2: the detector set built from custom regexes c1..cm and names n1..nk is
\* email, phone, ssn, dob, street_address, url, ip_address, credit_card,
\* custom:c1 .. custom:cm, name:n1 .. name:nk, in that order.
DetectorSetOrder ==
    pc = "filter" =>
        Labels(patterns) =
            <<LEmail, LPhone, LSSN, LDOB, LStreet, LURL, LIP, LCard>>
            \o [k \in 1..Len(args.custom) |-> CustomPrefix \o args.custom[k]]
            \o [k \in 1..Len(args.names) |-> NamePrefix \o args.names[k]]

DetectorSetBuilt ==
    /\ pc = "filter"
    /\ Len(args.custom) >= 1
    /\ Len(args.names) >= 1

\* C3: in the credit_card pass a candidate that fails the Luhn validator
\* stays verbatim and is not counted, a candidate that passes is replaced
\* and counted once, with a literal mask and with a template; of the two
\* numbers of DocCards only the first is redacted and the count is 1.
LuhnGate ==
    /\ (log # <<>> /\ log[Len(log)].label = LCard) =>
          LET e     == log[Len(log)]
              cands == FindAllStringIndex(ReCard, e.before)
              raw(k) == Slice(e.before, cands[k][1], cands[k][2])
              valid == {k \in 1..Len(cands) : luhnValidToken(raw(k))}
          IN  /\ Len(e.calls) = Len(cands)
              /\ \A k \in 1..Len(cands) :
                    /\ e.calls[k].redacted = (k \in valid)
                    /\ k \in valid => e.calls[k].token # raw(k)
              /\ content =
                    Splice(e.before,
                           [k \in 1..Len(cands) |->
                               [a |-> cands[k][1], b |-> cands[k][2],
                                token |-> IF k \in valid THEN e.calls[k].token
                                          ELSE raw(k)]], 1, 1)
              /\ IF valid = {} THEN LCard \notin DOMAIN redactions
                 ELSE /\ LCard \in DOMAIN redactions
                      /\ redactions[LCard] = Cardinality(valid)
    /\ \A i \in 1..Len(outs) :
          outs[i].original = DocCards =>
              /\ ~Contains(outs[i].redacted, Card16Spaced)
              /\ Contains(outs[i].redacted, Card16Bad)
              /\ outs[i].entry.Redactions[LCard] = 1

CardPassUnderTemplate ==
    /\ log # <<>>
    /\ log[Len(log)].label = LCard
    /\ cfg.template # <<>>
    /\ \E k \in 1..Len(log[Len(log)].calls) : log[Len(log)].calls[k].redacted
    /\ \E k \in 1..Len(log[Len(log)].calls) : ~log[Len(log)].calls[k].redacted

\* The Luhn sum of a sequence of digits: from the right, every second digit
\* doubled, 9 subtracted from a doubled digit above 9.
StandardLuhnSum(digits) ==
    LET n == Len(digits)
        term(j) == LET d == DigitValue(digits[n - j + 1])
                   IN  IF j % 2 = 1 THEN d
                       ELSE IF 2 * d > 9 THEN 2 * d - 9 ELSE 2 * d
        upTo[j \in 0..n] == IF j = 0 THEN 0 ELSE upTo[j - 1] + term(j)
    IN  upTo[n]

\* C4: luhnValidToken(raw) is true exactly when raw without its spaces and
\* hyphens is 13 to 19 decimal digits whose Luhn sum is 0 modulo 10.
LuhnTokenExact ==
    call.fn = "luhnValidToken" =>
        LET rest == SelectSeq(call.input, LAMBDA c : c \notin {" ", "-"})
        IN  call.output <=>
                /\ \A k \in 1..Len(rest) : rest[k] \in Digit
                /\ Len(rest) >= 13
                /\ Len(rest) <= 19
                /\ StandardLuhnSum(rest) % 10 = 0

EditedTokenValid ==
    /\ call.fn = "luhnValidToken"
    /\ call.output
    /\ call.input \notin LuhnTokens
    /\ \E k \in 1..Len(call.input) : call.input[k] = "-"

\* The redacted calls of a pass.
RedactedCalls(e) == {e.calls[k] : k \in {i \in 1..Len(e.calls) : e.calls[i].redacted}}

\* C5: with no template every redacted match of every detector is replaced
\* by the literal mask, the same characters for every match and every mask.
LiteralMaskVerbatim ==
    \A k \in 1..Len(log) :
        cfg.template = <<>> => \A c \in RedactedCalls(log[k]) : c.token = cfg.mask

\* The placeholders of a template replaced in one scan from left to right,
\* everything else copied.
RECURSIVE SubstituteAtOnce(_, _, _, _)
SubstituteAtOnce(template, label, n, hash) ==
    IF template = <<>> THEN <<>>
    ELSE IF HasPrefix(template, PhLabel)
    THEN label \o SubstituteAtOnce(SubSeq(template, Len(PhLabel) + 1, Len(template)),
                                   label, n, hash)
    ELSE IF HasPrefix(template, PhN)
    THEN n \o SubstituteAtOnce(SubSeq(template, Len(PhN) + 1, Len(template)),
                               label, n, hash)
    ELSE IF HasPrefix(template, PhHash)
    THEN hash \o SubstituteAtOnce(SubSeq(template, Len(PhHash) + 1, Len(template)),
                                  label, n, hash)
    ELSE <<Head(template)>> \o SubstituteAtOnce(Tail(template), label, n, hash)

\* C6: the token of a template is the template with every {label} replaced
\* by the detector's label and every {n} by the decimal index, all other
\* text unchanged (here for the templates without {hash}, hashing off).
TemplateExpansionExact ==
    \A k \in 1..Len(log) :
        (cfg.template # <<>> /\ ~cfg.hash /\ ~Contains(cfg.template, PhHash)) =>
            \A c \in RedactedCalls(log[k]) :
                c.token = SubstituteAtOnce(cfg.template, log[k].label, Decimal(c.n), <<>>)

\* The hash fragment of a token of the template [REDACTED:{label}:{hash}].
FragmentOf(token, length) == SubSeq(token, Len(token) - length, Len(token) - 1)

\* Every pass of the run so far: the passes of the files done and of the
\* current file.
AllPasses ==
    UNION {{outs[i].log[k] : k \in 1..Len(outs[i].log)} : i \in 1..Len(outs)}
    \cup {log[k] : k \in 1..Len(log)}

\* C7: with hashing the fragment of a redaction is the first hashLength hex
\* characters of the digest of salt and raw match: two redactions of the same
\* raw text have the same fragment, whatever their index, label or document.
HashFromSaltAndRaw ==
    (log # <<>> /\ cfg.hash) =>
        /\ \A c \in RedactedCalls(log[Len(log)]) :
              /\ Len(c.token) > cfg.hashLength
              /\ FragmentOf(c.token, cfg.hashLength)
                     = SubSeq(HexDigest(cfg.salt \o c.raw), 1, cfg.hashLength)
        /\ \A e1, e2 \in AllPasses :
              \A c1 \in RedactedCalls(e1), c2 \in RedactedCalls(e2) :
                  c1.raw = c2.raw =>
                      FragmentOf(c1.token, cfg.hashLength)
                          = FragmentOf(c2.token, cfg.hashLength)

SameEmailTwice ==
    /\ log # <<>>
    /\ cfg.hash
    /\ \E k \in 1..Len(log) :
          /\ log[k].label = LEmail
          /\ \E c1, c2 \in RedactedCalls(log[k]) :
                /\ c1.raw = c2.raw
                /\ c1.n # c2.n
                /\ FragmentOf(c1.token, cfg.hashLength)
                       = FragmentOf(c2.token, cfg.hashLength)

\* C8: with hashing and no template the configuration is built with a default
\* template that contains {hash}; with hashing and a template without {hash}
\* it fails and there is no configuration; a configuration built with hashing
\* has a template that contains {hash}.
HashConfigChecked ==
    (pc \in {"patterns", "filter", "files", "pass", "sorted", "done", "exit"} /\ args.hash) =>
        /\ TrimSpace(args.maskTemplate) = <<>> =>
              /\ cfg.ok
              /\ Contains(cfg.template, PhHash)
        /\ (TrimSpace(args.maskTemplate) # <<>> /\ ~Contains(args.maskTemplate, PhHash)) =>
              /\ pc = "exit"
              /\ err.kind = "hash requires {hash} in template"
              /\ ~cfg.ok
        /\ cfg.ok => Contains(cfg.template, PhHash)

HashConfigRefused ==
    /\ pc = "exit"
    /\ args.hash
    /\ err.kind = "hash requires {hash} in template"

\* C9: the filter removes exactly the detectors whose label is a disable
\* request or starts with the prefix of a request that ends in "*", keeps
\* the others in their order, and a request that names no detector is no
\* failure.
FilterExact ==
    (pc \in {"files", "pass", "sorted", "done"} \/ (pc = "exit" /\ err.kind = "no patterns configured")) =>
        LET built  == buildPatterns(args.custom).patterns \o buildNamePatterns(args.names)
            off(l) == \E k \in 1..Len(args.disable) :
                          LET r == args.disable[k]
                          IN  \/ l = r
                              \/ /\ r # <<>>
                                 /\ r[Len(r)] = "*"
                                 /\ Len(l) >= Len(r) - 1
                                 /\ \A i \in 1..(Len(r) - 1) : l[i] = r[i]
            keep   == {i \in 1..Len(built) : ~off(built[i].label)}
            rank(i) == Cardinality({j \in keep : j <= i})
        IN  /\ Len(patterns) = Cardinality(keep)
            /\ \A i \in keep : patterns[rank(i)] = built[i]
            /\ pc = "exit" <=> keep = {}

NamesDisabled ==
    /\ pc = "files"
    /\ args.names # <<>>
    /\ \E k \in 1..Len(args.disable) : args.disable[k] = DisableNames
    /\ Len(patterns) = Len(BuiltinPatterns) + Len(args.custom)

\* C10: a file is skipped exactly when -skip-clean is set and its total is 0;
\* a skipped file is not written, its content is returned unchanged and its
\* counts are empty.
SkippedExactly ==
    \A i \in 1..Len(outs) :
        LET o == outs[i]
        IN  /\ o.entry.Skipped <=> (args.skipClean /\ o.entry.Total = 0)
            /\ o.entry.Skipped =>
                  /\ ~o.wrote
                  /\ o.entry.Target \notin DOMAIN disk
                  /\ o.redacted = o.original
                  /\ \A l \in DOMAIN o.entry.Redactions : o.entry.Redactions[l] = 0

CleanFileSkipped ==
    \E i \in 1..Len(outs) :
        /\ outs[i].entry.Skipped
        /\ ~args.dryRun
        /\ outs[i].original = DocClean

\* C11: under -dry-run no redacted file and no directory is created or
\* written for any document, whatever its total; the counts and the redacted
\* content of a document are those of the detector loop alone, the same with
\* and without -dry-run, and the report is still written when the run ends.
LastOut == outs[Len(outs)]

DryRunWritesNothing ==
    /\ args.dryRun =>
          /\ disk = EmptyMap
          /\ dirs = {}
          /\ \A i \in 1..Len(outs) : ~outs[i].wrote
    /\ (pc = "files" /\ outs # <<>>) =>
          \E r \in {redactContent(LastOut.original, patterns, cfg)} :
             /\ LastOut.redacted = r.content
             /\ LastOut.entry.Redactions = r.redactions
             /\ LastOut.entry.Total = SumMap(r.redactions)
    /\ pc = "done" => reportWritten
    /\ reportWritten => pc = "done"

DryRunReported ==
    /\ pc = "done"
    /\ args.dryRun
    /\ reportWritten
    /\ args.output = OutGiven
    /\ \E i \in 1..Len(outs) :
          /\ outs[i].entry.Total > 0
          /\ outs[i].entry.Target = OutGiven \o outs[i].entry.Source
          /\ outs[i].redacted # outs[i].original

\* C12: a document in which nothing is redacted, processed without
\* -skip-clean and without -dry-run, is written to its target path with the
\* content it was read with; its outcome has total 0 and is not skipped.
CleanFileCopied ==
    \A i \in 1..Len(outs) :
        LET o == outs[i]
        IN  (o.entry.Total = 0 /\ ~args.skipClean /\ ~args.dryRun) =>
               /\ ~o.entry.Skipped
               /\ o.wrote
               /\ o.redacted = o.original
               /\ o.entry.Target = outDir \o o.entry.Source
               /\ o.entry.Target \in DOMAIN disk
               /\ disk[o.entry.Target] = o.original
               /\ DirOf(o.entry.Target) \in dirs

CleanFileWritten ==
    \E i \in 1..Len(outs) :
        /\ outs[i].original = DocClean
        /\ \A k \in 1..Len(outs[i].log) : outs[i].log[k].calls = <<>>
        /\ outs[i].entry.Total = 0
        /\ ~args.skipClean
        /\ ~args.dryRun
        /\ outs[i].entry.Target \in DOMAIN disk

\* C13: in every per-document outcome the total is the sum of all the values
\* of its counts.
Units(m) == UNION {{l} \X (1..m[l]) : l \in DOMAIN m}

TotalIsSumOfCounts ==
    \A i \in 1..Len(outs) :
        /\ \A l \in DOMAIN outs[i].entry.Redactions :
              outs[i].entry.Redactions[l] \in Nat
        /\ outs[i].entry.Total = Cardinality(Units(outs[i].entry.Redactions))

SeveralLabelsCounted ==
    \E i \in 1..Len(outs) :
        /\ Cardinality(DOMAIN outs[i].entry.Redactions) >= 2
        /\ \E l \in DOMAIN outs[i].entry.Redactions : outs[i].entry.Redactions[l] >= 2
        /\ outs[i].entry.Total >= 3

\* C14: after each file is folded into the report, and so at the end of the
\* run, Files is the number of documents processed, ByPattern[l] is the sum
\* of the documents' counts of l, and Total is the sum of the documents'
\* totals and the sum of the values of ByPattern: nothing is lost or doubled.
CountOf(i, l) ==
    IF l \in DOMAIN outs[i].entry.Redactions THEN outs[i].entry.Redactions[l] ELSE 0

AggregateExact ==
    /\ rep.Files = Len(outs)
    /\ Len(rep.Details) = Len(outs)
    /\ (pc \in {"pass", "files", "sorted", "done"}) => Len(outs) \in {cur - 1, cur}
    /\ pc \in {"files", "sorted", "done"} => rep.Files = cur
    /\ pc \in {"sorted", "done"} => rep.Files = Len(args.files)
    /\ DOMAIN rep.ByPattern = UNION {DOMAIN outs[i].entry.Redactions : i \in 1..Len(outs)}
    /\ \A l \in DOMAIN rep.ByPattern :
          rep.ByPattern[l] =
             Cardinality(UNION {{i} \X (1..CountOf(i, l)) : i \in 1..Len(outs)})
    /\ rep.Total =
          Cardinality(UNION {{i} \X (1..outs[i].entry.Total) : i \in 1..Len(outs)})
    /\ rep.Total = Cardinality(Units(rep.ByPattern))

SameLabelInTwoFiles ==
    /\ pc = "done"
    /\ \E i, j \in 1..Len(outs) :
          /\ i # j
          /\ \E l \in DOMAIN outs[i].entry.Redactions \cap DOMAIN outs[j].entry.Redactions :
                /\ outs[i].entry.Redactions[l] > 0
                /\ outs[j].entry.Redactions[l] > 0
                /\ rep.ByPattern[l] = outs[i].entry.Redactions[l]
                                        + outs[j].entry.Redactions[l]

\* C15: when a custom expression does not compile, the construction of the
\* detector set fails as a whole: the error names the first offending raw
\* expression, no detector list is returned, and the run stops before any
\* file is processed.
Offending == {k \in 1..Len(args.custom) : args.custom[k] = RawUnclosed}

InvalidCustomFails ==
    /\ \E built \in {buildPatterns(args.custom)} :
          IF Offending = {}
          THEN /\ built.err = NoError
               /\ Len(built.patterns) = Len(BuiltinPatterns) + Len(args.custom)
          ELSE /\ built.patterns = <<>>
               /\ built.err.kind = "invalid custom regex"
               /\ \E k \in Offending :
                     /\ built.err.raw = args.custom[k]
                     /\ \A j \in Offending : k <= j
    /\ Offending # {} =>
          /\ pc \in {"start", "config", "patterns", "exit"}
          /\ patterns = <<>>
          /\ outs = <<>>
          /\ ~reportWritten
          /\ (pc = "exit" /\ cfg # NoConfig) =>
                err = [kind |-> "invalid custom regex", raw |-> RawUnclosed]
    /\ err # NoError /\ err.kind = "invalid custom regex" => Offending # {}

SecondCustomInvalid ==
    /\ pc = "exit"
    /\ Len(args.custom) = 2
    /\ args.custom[1] = RawSixDigits
    /\ args.custom[2] = RawUnclosed
    /\ err = [kind |-> "invalid custom regex", raw |-> RawUnclosed]
    /\ patterns = <<>>

\* C16: with a literal mask the redaction is idempotent: the detector loop
\* run again, with the same detectors, on the content a file was redacted to
\* replaces nothing (total 0) and leaves that content unchanged.
SecondPass(o) == redactContent(o.redacted, patterns, cfg)

RedactionIdempotent ==
    (pc = "files" /\ outs # <<>> /\ TrimSpace(cfg.template) = <<>>) =>
        \E r \in {SecondPass(LastOut)} :
           /\ SumMap(r.redactions) = 0
           /\ r.content = LastOut.redacted

\* The same for the masks in which no "$" occurs.
RedactionIdempotentPlainMask ==
    (pc = "files" /\ outs # <<>> /\ TrimSpace(cfg.template) = <<>>
       /\ ~InSeq("$", cfg.mask)) =>
        \E r \in {SecondPass(LastOut)} :
           /\ SumMap(r.redactions) = 0
           /\ r.content = LastOut.redacted

\* C17: under a template the k-th redacted match of a detector in a document
\* gets the index k: the index starts at 1 in every pass of every document,
\* grows by one per redacted match from left to right, is not shared between
\* detectors or documents, and a credit_card candidate the Luhn check rejects
\* takes no index.
RedactedBefore(calls, j) == Cardinality({i \in 1..j : calls[i].redacted})

PassIndexed(entry) ==
    \A j \in 1..Len(entry.calls) :
        LET c == entry.calls[j]
        IN  /\ (j > 1) => entry.calls[j - 1].b <= c.a
            /\ IF c.redacted
               THEN /\ c.n = RedactedBefore(entry.calls, j)
                    /\ c.token = templateToken(cfg, entry.label, c.n, c.raw)
               ELSE /\ entry.label = LCard
                    /\ ~luhnValidToken(c.raw)
                    /\ c.token = c.raw

IndexPerPass ==
    (cfg # NoConfig /\ TrimSpace(cfg.template) # <<>>) =>
        /\ \A k \in 1..Len(log) : PassIndexed(log[k])
        /\ \A i \in 1..Len(outs) :
              \A k \in 1..Len(outs[i].log) : PassIndexed(outs[i].log[k])

RejectedCardTakesNoIndex ==
    /\ args.maskTemplate = TplLabelN
    /\ \E i \in 1..Len(outs) :
          /\ \E k \in 1..Len(outs[i].log) :
                /\ outs[i].log[k].label = LEmail
                /\ Len(outs[i].log[k].calls) = 1
                /\ outs[i].log[k].calls[1].n = 1
          /\ \E k \in 1..Len(outs[i].log) :
                LET calls == outs[i].log[k].calls
                IN  /\ outs[i].log[k].label = LCard
                    /\ Len(calls) = 2
                    /\ ~calls[1].redacted
                    /\ calls[2].redacted
                    /\ calls[2].n = 1
                    /\ Contains(outs[i].redacted,
                                applyMaskTemplate(TplLabelN, LCard, 1))

\* C18: after the passes over a document its count of a label is the number
\* of match spans that the detectors with that label replaced by a token,
\* with a literal mask and with a template alike; a label whose detectors
\* replaced nothing adds nothing to the total.
ReplacedSpans(o, l) ==
    UNION {{k} \X {j \in 1..Len(o.log[k].calls) :
                      /\ o.log[k].calls[j].redacted
                      /\ o.log[k].calls[j].token # o.log[k].calls[j].raw} :
              k \in {p \in 1..Len(o.log) : o.log[p].label = l}}

CountsAreReplacedSpans ==
    \A i \in 1..Len(outs) :
        LET o == outs[i]
        IN  /\ Len(o.log) = Len(patterns)
            /\ \A k \in 1..Len(o.log) :
                  /\ o.log[k].label = patterns[k].label
                  /\ CountOf(i, o.log[k].label)
                        = Cardinality(ReplacedSpans(o, o.log[k].label))
            /\ \A l \in DOMAIN o.entry.Redactions :
                  /\ o.entry.Redactions[l] > 0
                  /\ \E k \in 1..Len(o.log) : o.log[k].label = l
            /\ o.entry.Total =
                  Cardinality(UNION {ReplacedSpans(o, patterns[k].label) :
                                        k \in 1..Len(patterns)})

CandidateNotCounted ==
    \E i \in 1..Len(outs) :
        /\ outs[i].original = DocNote
        /\ TrimSpace(cfg.template) = <<>>
        /\ CountOf(i, LCard) = 1
        /\ CountOf(i, LEmail) = 1
        /\ CountOf(i, LPhone) = 0
        /\ outs[i].entry.Total = 2
        /\ \E k \in 1..Len(outs[i].log) :
              /\ outs[i].log[k].label = LCard
              /\ Len(outs[i].log[k].calls) = 2

\* C19: a detector's pass changes only the spans it redacts.  Its matches
\* are the leftmost-first, non-overlapping ones; each redacted span is
\* replaced by exactly one token; every character outside the redacted spans
\* keeps its value and its place relative to the others; and a pass with no
\* surviving match leaves the content as it was.
LeftmostFirst(re, s, calls) ==
    LET n == Len(calls)
        free(j) == (IF j = 1 THEN 1 ELSE calls[j - 1].b) ..
                   (IF j > n THEN Len(s) + 1 ELSE calls[j].a - 1)
    IN  /\ \A j \in 1..n :
              /\ calls[j].a < calls[j].b
              /\ (j > 1) => calls[j - 1].b <= calls[j].a
              /\ \E ends \in {Ends(re, s, calls[j].a)} :
                    ends # <<>> /\ ends[1] = calls[j].b
        /\ \A j \in 1..(n + 1) : \A p \in free(j) : Ends(re, s, p) = <<>>

OnlySpansChanged(before, calls, after) ==
    LET n == Len(calls)
        grow(j) == Len(calls[j].token) - (calls[j].b - calls[j].a)
        shift[j \in 0..n] == IF j = 0 THEN 0 ELSE shift[j - 1] + grow(j)
        passed(p) == Cardinality({j \in 1..n : calls[j].b <= p})
        inside(p) == \E j \in 1..n : calls[j].a <= p /\ p < calls[j].b
    IN  /\ Len(after) = Len(before) + shift[n]
        /\ \A j \in 1..n :
              /\ calls[j].raw = Slice(before, calls[j].a, calls[j].b)
              /\ ~calls[j].redacted => calls[j].token = calls[j].raw
              /\ Slice(after, calls[j].a + shift[j - 1],
                        calls[j].a + shift[j - 1] + Len(calls[j].token))
                    = calls[j].token
        /\ \A p \in 1..Len(before) :
              ~inside(p) => after[p + shift[passed(p)]] = before[p]
        /\ (\A j \in 1..n : ~calls[j].redacted) => after = before

PassChangesOnlyItsSpans ==
    (pc = "pass" /\ log # <<>>) =>
        LET e == log[Len(log)]
        IN  /\ LeftmostFirst(patterns[Len(log)].re, e.before, e.calls)
            /\ OnlySpansChanged(e.before, e.calls, content)

TwoSpansReplaced ==
    /\ pc = "pass"
    /\ log # <<>>
    /\ LET e == log[Len(log)]
       IN  /\ Len(e.calls) = 2
           /\ e.calls[1].redacted /\ e.calls[2].redacted
           /\ e.calls[1].a > 1
           /\ e.calls[1].b < e.calls[2].a
           /\ Len(content) # Len(e.before)
           /\ SubSeq(content, 1, e.calls[1].a - 1) = SubSeq(e.before, 1, e.calls[1].a - 1)

\* C20: once the report is finalized, after every document was processed and
\* before the report is written, and from then on, Details holds exactly one
\* outcome per processed document, in non-decreasing order of source path,
\* whatever the order the documents were processed in.
Finalized == pc \in {"sorted", "done"}

DetailsSortedWhenFinal ==
    /\ Finalized =>
          /\ Len(outs) = Len(args.files)
          /\ Len(rep.Details) = Len(outs)
          /\ \A i \in 1..Len(outs) :
                /\ outs[i].entry.Source = args.files[i].path
                /\ Cardinality({k \in 1..Len(rep.Details) :
                                   rep.Details[k] = outs[i].entry}) = 1
                /\ Cardinality({k \in 1..Len(rep.Details) :
                                   rep.Details[k].Source = outs[i].entry.Source}) = 1
          /\ \A j, k \in 1..Len(rep.Details) :
                j < k => ~LessText(rep.Details[k].Source, rep.Details[j].Source)
    /\ pc = "sorted" => ~reportWritten
    /\ reportWritten => Finalized

ProcessedOutOfOrder ==
    /\ pc = "sorted"
    /\ ~reportWritten
    /\ Len(outs) = 3
    /\ outs[1].entry.Source = PathSub
    /\ outs[2].entry.Source = PathA
    /\ outs[3].entry.Source = PathUpper
    /\ rep.Details = <<outs[3].entry, outs[2].entry, outs[1].entry>>

\* C21: when two or more detectors of the set bear the same label, the counts
\* of a document have one entry for that label, and its value is the sum of
\* the redactions that each of those detectors made.
Bearers(l) == {k \in 1..Len(patterns) : patterns[k].label = l}

RECURSIVE SumOver(_, _)
SumOver(f, S) ==
    IF S = {} THEN 0
    ELSE LET k == CHOOSE x \in S : TRUE
         IN  f[k] + SumOver(f, S \ {k})

MadeBy(o) == [k \in 1..Len(o.log) |-> Cardinality(RedactedCalls(o.log[k]))]

SharedLabelSummed ==
    \A i \in 1..Len(outs) :
        \A k \in 1..Len(patterns) :
            LET l == patterns[k].label
            IN  Cardinality(Bearers(l)) >= 2 =>
                   /\ Len(outs[i].log) = Len(patterns)
                   /\ \A j \in Bearers(l) : outs[i].log[j].label = l
                   /\ CountOf(i, l) = SumOver(MadeBy(outs[i]), Bearers(l))

BothBearersRedacted ==
    \E i \in 1..Len(outs) :
        \E j, k \in 1..Len(patterns) :
            /\ j < k
            /\ patterns[j].label = patterns[k].label
            /\ MadeBy(outs[i])[j] = 1
            /\ MadeBy(outs[i])[k] = 1
            /\ outs[i].entry.Redactions[patterns[j].label] = 2

\* C22: an error of the detector set construction is raised before any
\* document is read, redacted or written: in a run with an invalid custom
\* expression no file is ever opened, no pass is made, no redacted file and no
\* report is written, and the run ends at the error.
NothingProcessed ==
    /\ cur = 0
    /\ content = <<>>
    /\ log = <<>>
    /\ outs = <<>>
    /\ rep = EmptyReport
    /\ disk = EmptyMap
    /\ ~reportWritten

InvalidCustomStopsRun ==
    /\ Offending # {} =>
          /\ NothingProcessed
          /\ pc \notin {"filter", "files", "pass", "sorted", "done"}
          /\ pc = "exit" => err # NoError
    /\ (pc = "exit" /\ err # NoError) => NothingProcessed

StoppedBeforeFirstFile ==
    /\ pc = "exit"
    /\ err = [kind |-> "invalid custom regex", raw |-> RawUnclosed]
    /\ args.custom = <<RawUnclosed>>
    /\ Len(args.files) = 2
    /\ ~args.dryRun
    /\ dirs = {OutDir}
    /\ NothingProcessed

\* C23: the expansion of a template inserts the label as it is: for every
\* label of the detector set, a custom or name label that contains "{n}" or
\* "{label}" included, the token has the label's characters unchanged where
\* {label} stood, and equals the template with its own placeholders replaced
\* all at once.
VerbatimIn(template, label, index) ==
    LET token == applyMaskTemplate(template, label, index)
    IN  /\ token = SubstituteAtOnce(template, label, Decimal(index), PhHash)
        /\ Contains(template, PhLabel) => Contains(token, label)

LabelInsertedVerbatim ==
    pc = "files" =>
        \A k \in 1..Len(patterns) :
            \A template \in TemplatePool \ {<<>>} :
                \A index \in 1..2 :
                    VerbatimIn(template, patterns[k].label, index)

\* The same for the labels in which no placeholder occurs.
PlainLabelInsertedVerbatim ==
    pc = "files" =>
        \A k \in 1..Len(patterns) :
            (~Contains(patterns[k].label, PhN) /\ ~Contains(patterns[k].label, PhLabel)) =>
                \A template \in TemplatePool \ {<<>>} :
                    \A index \in 1..2 :
                        VerbatimIn(template, patterns[k].label, index)

====
